---- MODULE Spec2Model ----
(***************************************************************************)
(* A model of run.py: the poll loop (main_loop), the primary-page scanner  *)
(* (get_incidents), the unit extractor (get_units_on_scene) and the        *)
(* municipality filter (filter_incidents).                                 *)
(*                                                                         *)
(* A Python str is modelled as a sequence of one-character strings, so     *)
(* that strip, lower, startswith, "in", partition, split and the regular   *)
(* expressions are computed character by character as the code does.       *)
(***************************************************************************)
EXTENDS Integers, Sequences, FiniteSets, TLC

(***************************************************************************)
(* Characters and the str methods the code uses.                           *)
(***************************************************************************)
UpperSeq == <<"A","B","C","D","E","F","G","H","I","J","K","L","M","N","O","P","Q","R","S","T","U","V","W","X","Y","Z">>
LowerSeq == <<"a","b","c","d","e","f","g","h","i","j","k","l","m","n","o","p","q","r","s","t","u","v","w","x","y","z">>
DigitSeq == <<"0","1","2","3","4","5","6","7","8","9">>
Upper == {UpperSeq[k] : k \in 1..26}
Digit == {DigitSeq[k] : k \in 1..10}
Whitespace == {" ", "\t"}

DigitVal(c) == (CHOOSE k \in 1..10 : DigitSeq[k] = c) - 1

\* str.lower(), one character
lower_char(c) == IF c \in Upper THEN LowerSeq[CHOOSE k \in 1..26 : UpperSeq[k] = c] ELSE c

\* str.lower()
lower(s) == [k \in 1..Len(s) |-> lower_char(s[k])]

RECURSIVE lstrip(_)
lstrip(s) == IF s # <<>> /\ Head(s) \in Whitespace THEN lstrip(Tail(s)) ELSE s

RECURSIVE rstrip(_)
rstrip(s) == IF s # <<>> /\ s[Len(s)] \in Whitespace THEN rstrip(SubSeq(s, 1, Len(s) - 1)) ELSE s

\* str.strip()
strip(s) == rstrip(lstrip(s))

\* sub in s
Contains(s, sub) == \E k \in 0..(Len(s) - Len(sub)) : SubSeq(s, k + 1, k + Len(sub)) = sub

\* s.startswith(p)
StartsWith(s, p) == Len(s) >= Len(p) /\ SubSeq(s, 1, Len(p)) = p

\* s.partition(">")[0]: the part before the first ">" (all of s when there is none)
RECURSIVE partition_before(_)
partition_before(s) ==
    IF s = <<>> \/ Head(s) = ">" THEN <<>> ELSE <<Head(s)>> \o partition_before(Tail(s))

\* s.split()[-1] for a non-empty split, <<>> when s.split() is empty:
\* drop the trailing whitespace, then keep the trailing run of non-whitespace
RECURSIVE last_run(_)
last_run(s) ==
    IF s = <<>> \/ s[Len(s)] \in Whitespace THEN <<>>
    ELSE last_run(SubSeq(s, 1, Len(s) - 1)) \o <<s[Len(s)]>>

split_last(s) == last_run(rstrip(s))

(***************************************************************************)
(* The literals of the code.                                               *)
(***************************************************************************)
FireHeader == <<"F","i","r","e"," ","I","n","c","i","d","e","n","t","s">>
EmsHeader == <<"E","M","S"," ","I","n","c","i","d","e","n","t","s">>
TrafficHeader == <<"T","r","a","f","f","i","c"," ","I","n","c","i","d","e","n","t","s">>
IncidentNoPrefix == <<"I","n","c","i","d","e","n","t"," ","N","o",".">>
LastUpdatedPrefix == <<"L","a","s","t"," ","U","p","d","a","t","e","d">>
Marker == <<"l","i","v","e","c","a","d","c","o","m","m","e","n","t","s">>
SceneWord == <<"s","c","e","n","e">>
UrlBaseDir == <<"h","t","t","p","s",":","/","/","w","e","b","c","a","d",".","c","h","e","s","c","o",".","o","r","g","/","W","e","b","C","a","d","/">>
UrlOrigin == <<"h","t","t","p","s",":","/","/","w","e","b","c","a","d",".","c","h","e","s","c","o",".","o","r","g">>

\* id_re = ^[A-Z]\d+$ applied with match()
id_re_match(s) ==
    /\ Len(s) >= 2
    /\ s[1] \in Upper
    /\ \A k \in 2..Len(s) : s[k] \in Digit

\* ^\d{2}-\d{2}-\d{4} \d{2}:\d{2}:\d{2}$ applied with match()
ts_re_match(s) ==
    /\ Len(s) = 19
    /\ \A k \in {1, 2, 4, 5, 7, 8, 9, 10, 12, 13, 15, 16, 18, 19} : s[k] \in Digit
    /\ s[3] = "-" /\ s[6] = "-" /\ s[11] = " " /\ s[14] = ":" /\ s[17] = ":"

Num2(s, k) == 10 * DigitVal(s[k]) + DigitVal(s[k + 1])
Num4(s, k) == 100 * Num2(s, k) + Num2(s, k + 2)

IsLeap(y) == (y % 4 = 0 /\ y % 100 # 0) \/ y % 400 = 0

DaysInMonth(y, m) ==
    IF m = 2 THEN (IF IsLeap(y) THEN 29 ELSE 28)
    ELSE IF m \in {4, 6, 9, 11} THEN 30 ELSE 31

\* datetime.strptime(s, "%m-%d-%Y %H:%M:%S") raises ValueError unless the
\* fields name a calendar date and a time of day (s has passed ts_re_match)
strptime_ok(s) ==
    LET mo == Num2(s, 1)  d == Num2(s, 4)  y == Num4(s, 7)
        h == Num2(s, 12)  mi == Num2(s, 15)  se == Num2(s, 18)
    IN  /\ y >= 1
        /\ mo \in 1..12
        /\ d >= 1 /\ d <= DaysInMonth(y, mo)
        /\ h <= 23 /\ mi <= 59 /\ se <= 59

\* days are counted from 2000-01-01 so that seconds fit TLC's integers
LeapsBefore(y) == ((y - 1) \div 4) - ((y - 1) \div 100) + ((y - 1) \div 400)
DaysBeforeYear(y) == 365 * (y - 2000) + LeapsBefore(y) - LeapsBefore(2000)

RECURSIVE DaysBeforeMonth(_, _)
DaysBeforeMonth(y, m) == IF m = 1 THEN 0 ELSE DaysBeforeMonth(y, m - 1) + DaysInMonth(y, m - 1)

\* A civil date and time as seconds of wall-clock time since 2000-01-01.
\* now, cutoff and dt all carry the same ZoneInfo("America/New_York") object,
\* for which Python subtracts a timedelta and compares on the wall-clock
\* fields, so wall-clock seconds are what the comparison at line 162 sees.
WallSeconds(y, mo, d, h, mi, se) ==
    (DaysBeforeYear(y) + DaysBeforeMonth(y, mo) + (d - 1)) * 86400 + h * 3600 + mi * 60 + se

\* datetime.strptime(...).replace(tzinfo=...) of a string that parses
strptime(s) ==
    WallSeconds(Num4(s, 7), Num2(s, 1), Num2(s, 4), Num2(s, 12), Num2(s, 15), Num2(s, 18))

\* timedelta(hours=8), in seconds
Horizon == 28800

\* time.sleep(POLL_INTERVAL): the default of the environment variable
POLL_INTERVAL == 60

(***************************************************************************)
(* urljoin(URL, href) for the reference forms of the inputs below: an      *)
(* absolute reference is kept, a rooted path replaces the path of URL, any *)
(* other reference replaces the last path segment of URL.                  *)
(***************************************************************************)
urljoin(href) ==
    IF Contains(href, <<":", "/", "/">>) THEN href
    ELSE IF Head(href) = "/" THEN UrlOrigin \o href
    ELSE UrlBaseDir \o href

\* incident_links.get(incident_id, ""), the dict being a function on its keys
links_get(links, key) == IF key \in DOMAIN links THEN links[key] ELSE <<>>

\* links_put that keeps the url a key already has
links_put_first(links, key, url) ==
    [x \in (DOMAIN links) \cup {key} |-> IF x \in DOMAIN links THEN links[x] ELSE url]

\* incident_links[text] = url
links_put(links, key, url) ==
    [x \in (DOMAIN links) \cup {key} |-> IF x = key THEN url ELSE links[x]]

\* The loop over soup.find_all("a"): text is a.get_text(strip=True), href is
\* a.get("href") or ""
RECURSIVE build_links(_, _)
build_links(anchors, links) ==
    IF anchors = <<>> THEN links
    ELSE LET a == Head(anchors) IN
         IF a.text = <<>> \/ a.href = <<>> THEN build_links(Tail(anchors), links)
         ELSE IF Contains(lower(a.href), Marker)
              THEN build_links(Tail(anchors), links_put(links, a.text, urljoin(a.href)))
              ELSE build_links(Tail(anchors), links)

EmptyLinks == [x \in {} |-> <<>>]

(***************************************************************************)
(* get_units_on_scene, after a successful fetch: the loop over the lines   *)
(* of the comments page.                                                   *)
(***************************************************************************)
InSeq(x, s) == \E k \in 1..Len(s) : s[k] = x

\* units_step without the test "unit not in units"
units_step_nodedup(units, line) ==
    LET line_stripped == strip(line)
        unit == strip(split_last(partition_before(line_stripped)))
    IN  IF ~Contains(lower(line_stripped), SceneWord) THEN units
        ELSE IF ~Contains(line_stripped, <<">">>) THEN units
        ELSE IF unit # <<>> THEN Append(units, unit)
        ELSE units

\* one iteration of the loop: units after the line has been looked at
units_step(units, line) ==
    LET line_stripped == strip(line)
        line_lower == lower(line_stripped)
        unit == strip(split_last(partition_before(line_stripped)))
    IN  IF ~Contains(line_lower, SceneWord) THEN units
        ELSE IF ~Contains(line_stripped, <<">">>) THEN units
        ELSE IF split_last(partition_before(line_stripped)) = <<>> THEN units
        ELSE IF unit # <<>> /\ ~InSeq(unit, units) THEN Append(units, unit)
        ELSE units

RECURSIVE units_loop(_, _)
units_loop(clines, units) ==
    IF clines = <<>> THEN units
    ELSE units_loop(Tail(clines), units_step(units, Head(clines)))

units_from_lines(clines) == units_loop(clines, <<>>)

(***************************************************************************)
(* filter_incidents                                                        *)
(***************************************************************************)
\* filter_match with equality in place of containment
filter_match_exact(inc, filters) == \E key \in filters : inc.municipality = key

\* any(key in inc.get("municipality", "") for key in TARGET_FILTERS)
filter_match(inc, filters) == \E key \in filters : Contains(inc.municipality, key)

RECURSIVE filter_loop(_, _)
filter_loop(incs, filters) ==
    IF incs = <<>> THEN <<>>
    ELSE IF filter_match(Head(incs), filters)
         THEN <<Head(incs)>> \o filter_loop(Tail(incs), filters)
         ELSE filter_loop(Tail(incs), filters)

filter_incidents(incs, filters) ==
    IF filters = {} THEN incs ELSE filter_loop(incs, filters)

(***************************************************************************)
(* The incident record built at lines 165-187.                             *)
(***************************************************************************)
DescSep == <<" ", "|", " ">>
DescStn == <<" ", "|", " ", "S", "t", "n", " ">>

CategoryText(c) ==
    IF c = "FIRE" THEN <<"F","I","R","E">>
    ELSE IF c = "EMS" THEN <<"E","M","S">>
    ELSE IF c = "TRAFFIC" THEN <<"T","R","A","F","F","I","C">>
    ELSE <<"U","N","K","N","O","W","N">>

\* category_or_unknown without the default
category_nullable(c) == c

\* current_category or "UNKNOWN"
category_or_unknown(c) == IF c = "None" THEN "UNKNOWN" ELSE c

\* make_incident with location and municipality taken from each other's line
make_incident_swapped(dt, incident_id, incident_type, location, municipality, ts_str, station, cat, comments_url, units_on_scene) ==
    [ timestamp      |-> dt,
      id             |-> incident_id,
      location       |-> municipality,
      municipality   |-> location,
      type           |-> incident_type,
      category       |-> category_or_unknown(cat),
      station        |-> station,
      description    |-> location \o DescSep \o municipality \o DescSep \o incident_type
                         \o DescSep \o CategoryText(category_or_unknown(cat))
                         \o DescStn \o station,
      raw_timestamp  |-> ts_str,
      comments_url   |-> comments_url,
      units_on_scene |-> units_on_scene ]

make_incident(dt, incident_id, incident_type, location, municipality, ts_str, station, cat, comments_url, units_on_scene) ==
    [ timestamp      |-> dt,
      id             |-> incident_id,
      location       |-> location,
      municipality   |-> municipality,
      type           |-> incident_type,
      category       |-> category_or_unknown(cat),
      station        |-> station,
      description    |-> location \o DescSep \o municipality \o DescSep \o incident_type
                         \o DescSep \o CategoryText(category_or_unknown(cat))
                         \o DescStn \o station,
      raw_timestamp  |-> ts_str,
      comments_url   |-> comments_url,
      units_on_scene |-> units_on_scene ]

\* is_too_old with <= in place of <
is_too_old_inclusive(dt, now_) == dt <= now_ - Horizon

\* dt < cutoff, with cutoff = now - timedelta(hours=8)
is_too_old(dt, now_) == dt < now_ - Horizon

\* make_payload with the length of the filtered list as total_incidents
make_payload_total_filtered(all_, my_) ==
    [ total_incidents    |-> Len(my_),
      filtered_incidents |-> Len(my_),
      incidents          |-> my_ ]

\* the payload of lines 275-280 without last_update, which is a second reading
\* of the clock and does not depend on the incidents
make_payload(all_, my_) ==
    [ total_incidents    |-> Len(all_),
      filtered_incidents |-> Len(my_),
      incidents          |-> my_ ]

(***************************************************************************)
(* Inputs: the text lines of pages, anchors, comment pages, the clock and  *)
(* the configured filters.                                                 *)
(***************************************************************************)
TokId1 == <<"F","1">>
TokId2 == <<"E","2","2">>
TokType == <<"F","I","R","E"," ","A","L","A","R","M">>
TokLoc == <<"M","A","I","N"," ","S","T">>
TokMuni1 == <<"E","a","s","t"," ","C","a","l","n"," ","T","o","w","n","s","h","i","p">>
TokMuni2 == <<" ","W","e","s","t"," ","C","h","e","s","t","e","r">>
TokTs0 == <<"1","1","-","2","9","-","2","0","2","5"," ","0","0",":","3","1",":","0","4">>
TokTsEarlier == <<"1","1","-","2","9","-","2","0","2","5"," ","0","0",":","3","1",":","0","3">>
TokTsPadded == <<" ","1","1","-","2","9","-","2","0","2","5"," ","0","0",":","3","1",":","0","4">>
TokTsBadShape == <<"1","1","-","2","9","-","2","5"," ","0","0",":","3","1">>
TokTsBadDate == <<"0","2","-","3","0","-","2","0","2","5"," ","0","0",":","3","1",":","0","4">>
TokStation == <<"4","6">>
TokStationPadded == <<"7"," ">>
HrefA == <<"l","i","v","e","c","a","d","c","o","m","m","e","n","t","s",".","a","s","p","?","e","i","d","=","1">>
HrefB == <<"L","i","v","e","C","a","d","C","o","m","m","e","n","t","s",".","a","s","p","?","e","i","d","=","2">>
HrefOther == <<"w","e","b","c","a","d",".","a","s","p">>
HrefAbs == <<"h","t","t","p",":","/","/","x",".","o","r","g","/","l","i","v","e","c","a","d","c","o","m","m","e","n","t","s">>
FilterEast == <<"E","a","s","t"," ","C","a","l","n">>
FilterWest == <<"W","e","s","t">>
CLine1 == <<"E","N","G","4","5",">"," ","O","n"," ","S","c","e","n","e">>
CLine2 == <<"T","W","R","1",">"," ","A","t"," ","S","c","e","n","e">>
CLine3 == <<"1","1","-","2","9","-","2","0","2","5"," ","0","0",":","4","0",":","3","1"," ","E","N","G","4","5",">"," ","O","N"," ","S","C","E","N","E">>
CLine4 == <<">"," ","s","c","e","n","e">>
CLine5 == <<"M","E","D","1",">"," ","E","n","r","o","u","t","e">>
CLine6 == <<"O","n"," ","s","c","e","n","e"," ","n","o","w">>
CLine7 == <<" ","B","2"," ","A","1"," ",">"," ","x",">","s","c","e","n","e"," ">>
UnitENG45 == <<"E","N","G","4","5">>
UnitTWR1 == <<"T","W","R","1">>

\* a block whose fields are clean, dated TokTs0
BlockGood == <<TokId1, TokType, TokLoc, TokMuni1, TokTs0, TokStation>>
\* a block with padded fields, whose interior holds a section header and an id
BlockPadded == <<TokId2, EmsHeader, TokId1, TokMuni2, TokTsPadded, TokStationPadded>>
\* a block dated one second before TokTs0
BlockEarlier == <<TokId2, TokType, TokLoc, TokMuni2, TokTsEarlier, TokStation>>
\* a block whose 5th line has not the shape of a timestamp
BlockBadShape == <<TokId1, TrafficHeader, TokId2, TokMuni1, TokTsBadShape, TokStation>>
\* a block whose 5th line names February 30th
BlockBadDate == <<TokId1, TokType, TokLoc, TokMuni1, TokTsBadDate, TokStation>>

Segments ==
    { <<FireHeader>>, <<EmsHeader>>, <<TrafficHeader>>, <<IncidentNoPrefix>>, <<TokId1>>,
      <<TokStation>>, BlockGood, BlockPadded, BlockEarlier, BlockBadShape, BlockBadDate }

RECURSIVE Flatten(_)
Flatten(ss) == IF ss = <<>> THEN <<>> ELSE Head(ss) \o Flatten(Tail(ss))

SeqsUpTo(S, n) == UNION {[1..k -> S] : k \in 0..n}

\* pages of at most n segments
PagesOf(n) == {Flatten(ss) : ss \in SeqsUpTo(Segments, n)}

\* the largest number of segments of a page given to the scanner alone
MaxSegs == 3
\* the largest number of segments of a page fetched by the poll loop
MaxLoopSegs == 1
\* the largest number of lines of a comments page given to the extractor alone
MaxCommentLines == 3
\* the largest number of incidents given to the filter alone
MaxIncidents == 3

\* no anchor at all, or: an anchor without the marker, one without text, and two
\* for TokId1, of which the last has the marker in another letter case
AnchorLists ==
    { <<>>,
      <<[text |-> TokId2, href |-> HrefOther], [text |-> <<>>, href |-> HrefA],
        [text |-> TokId1, href |-> HrefAbs], [text |-> TokId1, href |-> HrefB]>> }

\* 2025-11-29 08:31:04: TokTs0 is exactly 8 hours before it
Now0 == WallSeconds(2025, 11, 29, 8, 31, 4)
\* at Now0 - 1 TokTsEarlier is exactly 8 hours back, at Now0 it is a second too old
NowSet == {Now0 - 1, Now0}

CommentPages == { <<CLine1, CLine1, CLine2>>, <<CLine5>> }
CommentLinePool == {CLine1, CLine2, CLine3, CLine4, CLine5, CLine6, CLine7}

FilterSets == { {}, {FilterEast}, {FilterWest, <<"Z">>} }

IncidentPool ==
    { make_incident(strptime(TokTs0), TokId1, TokType, TokLoc, TokMuni1, TokTs0, TokStation,
                    "FIRE", <<>>, <<>>),
      make_incident(strptime(TokTs0), TokId2, TokType, TokLoc, strip(TokMuni2), TokTs0,
                    TokStation, "EMS", <<>>, <<UnitENG45>>),
      make_incident(strptime(TokTs0), TokId2, TokType, TokLoc, TokLoc, TokTs0, TokStation,
                    "None", <<>>, <<>>) }

(***************************************************************************)
(* State.                                                                  *)
(*   pc                the statement main_loop is at                       *)
(*   connected         the client holds a session with the bus             *)
(*   TARGET_FILTERS    the configured filter substrings                    *)
(*   lines .. incidents   the locals of get_incidents                      *)
(*   anchors           the anchors of the fetched page                     *)
(*   all_incidents, my_incidents   the locals of main_loop                 *)
(*   comment_lines, units   the locals of get_units_on_scene               *)
(* and, recording what happened in the current cycle:                      *)
(*   conn, primary, pub   outcome of connect, of the primary fetch, of     *)
(*                     publish: "none", "ok" or "failed"                   *)
(*   published         the payloads handed to the bus                      *)
(*   slept             seconds slept since the cycle began                 *)
(*   earlier           the number of incidents the cycle before published  *)
(*   examined          the positions read as lines[i] at the top of the    *)
(*                     scan loop                                           *)
(*   log               one record per 6-line block the scan consumed       *)
(***************************************************************************)
VARIABLES pc, connected, TARGET_FILTERS, earlier,
          lines, anchors, incident_links, now, i, current_category, incidents,
          all_incidents, my_incidents, comment_lines, units,
          conn, primary, pub, published, slept, examined, log

scanVars == <<lines, anchors, incident_links, now, i, current_category, incidents, examined, log>>
cycleVars == <<conn, primary, pub, published, slept>>
unitVars == <<comment_lines, units>>
vars == <<pc, connected, TARGET_FILTERS, earlier, lines, anchors, incident_links, now, i,
          current_category, incidents, all_incidents, my_incidents, comment_lines, units,
          conn, primary, pub, published, slept, examined, log>>

\* the locals of get_incidents before it is called
ScanIdle ==
    /\ lines = <<>> /\ anchors = <<>> /\ incident_links = EmptyLinks /\ now = 0
    /\ i = 1 /\ current_category = "None" /\ incidents = <<>>
    /\ examined = {} /\ log = <<>>

\* the same, as the next state
ScanReset ==
    /\ lines' = <<>> /\ anchors' = <<>> /\ incident_links' = EmptyLinks /\ now' = 0
    /\ i' = 1 /\ current_category' = "None" /\ incidents' = <<>>
    /\ examined' = {} /\ log' = <<>>

\* main_loop before its first cycle
Init ==
    /\ pc = "connect"
    /\ connected = FALSE
    /\ TARGET_FILTERS \in FilterSets
    /\ ScanIdle
    /\ all_incidents = <<>> /\ my_incidents = <<>>
    /\ comment_lines = <<>> /\ units = <<>>
    /\ conn = "none" /\ primary = "none" /\ pub = "none"
    /\ published = <<>> /\ slept = 0
    /\ earlier = 0

(***************************************************************************)
(* main_loop                                                               *)
(***************************************************************************)
\* the top of the while body: nothing of the previous cycle is kept
CycleStart ==
    /\ ScanReset
    /\ all_incidents' = <<>> /\ my_incidents' = <<>>
    /\ primary' = "none" /\ pub' = "none" /\ published' = <<>> /\ slept' = 0
    /\ earlier' = (IF published = <<>> THEN 0 ELSE Len(published[1].incidents))
    /\ UNCHANGED <<TARGET_FILTERS, unitVars>>

\* LoopExcept without the except clause: the exception ends the process
LoopExcept_escapes == "terminated"

\* where control goes when the except clause of line 289 has caught an exception
LoopExcept == "sleep"

\* client.connect returns
ConnectOk ==
    /\ pc = "connect"
    /\ CycleStart
    /\ connected' = TRUE
    /\ conn' = "ok"
    /\ pc' = "get_incidents"

\* ConnectOSError without the sleep and continue of lines 269-270
ConnectOSError_falls_through ==
    /\ pc = "connect"
    /\ CycleStart
    /\ connected' = FALSE
    /\ conn' = "failed"
    /\ pc' = "get_incidents"

\* client.connect raises OSError: lines 267-270
ConnectOSError ==
    /\ pc = "connect"
    /\ CycleStart
    /\ connected' = FALSE
    /\ conn' = "failed"
    /\ pc' = "sleep_retry"

\* client.connect raises another exception (ValueError for an invalid host or port)
ConnectRaises ==
    /\ pc = "connect"
    /\ CycleStart
    /\ connected' = FALSE
    /\ conn' = "failed"
    /\ pc' = LoopExcept

\* time.sleep(POLL_INTERVAL); continue
SleepRetry ==
    /\ pc = "sleep_retry"
    /\ slept' = slept + POLL_INTERVAL
    /\ pc' = "connect"
    /\ UNCHANGED <<connected, TARGET_FILTERS, earlier, scanVars, all_incidents, my_incidents, unitVars,
                   conn, primary, pub, published>>

\* FetchPrimaryFails without the try of lines 55-64: the exception reaches main_loop
FetchPrimaryFails_raises ==
    /\ pc = "get_incidents"
    /\ primary' = "failed"
    /\ pc' = LoopExcept
    /\ UNCHANGED <<connected, TARGET_FILTERS, earlier, scanVars, all_incidents, my_incidents, unitVars,
                   conn, pub, published, slept>>

\* get_incidents: the fetch of the primary page fails, lines 62-64
FetchPrimaryFails ==
    /\ pc = "get_incidents"
    /\ primary' = "failed"
    /\ all_incidents' = <<>>
    /\ pc' = "filter"
    /\ UNCHANGED <<connected, TARGET_FILTERS, earlier, scanVars, my_incidents, unitVars,
                   conn, pub, published, slept>>

\* get_incidents: the fetch succeeds, lines 66-111
FetchPrimaryOk ==
    /\ pc = "get_incidents"
    /\ \E page \in PagesOf(MaxLoopSegs), as \in AnchorLists, t \in NowSet :
        /\ lines' = page
        /\ anchors' = as
        /\ incident_links' = build_links(as, EmptyLinks)
        /\ now' = t
    /\ i' = 1
    /\ current_category' = "None"
    /\ incidents' = <<>>
    /\ primary' = "ok"
    /\ pc' = "scan"
    /\ UNCHANGED <<connected, TARGET_FILTERS, earlier, examined, log, all_incidents, my_incidents,
                   unitVars, conn, pub, published, slept>>

(***************************************************************************)
(* get_incidents: the scan loop of lines 111-191.  i is the cursor,        *)
(* counted from 1 here and from 0 in the code.                             *)
(***************************************************************************)
line == lines[i]

InLoop == pc = "scan" /\ i <= Len(lines)

IsSectionHeader(l) == l = FireHeader \/ l = EmsHeader \/ l = TrafficHeader

IsTableHeader(l) == StartsWith(l, IncidentNoPrefix) \/ StartsWith(l, LastUpdatedPrefix)

\* the tests of lines 116-136 have all let the line through
AtId == InLoop /\ ~IsSectionHeader(line) /\ ~IsTableHeader(line) /\ id_re_match(line)

\* and line 139 has found six lines
AtBlock == AtId /\ i + 5 <= Len(lines)

\* incident_id read one line too far
incident_id_next_line == strip(lines[i + 1])

incident_id == strip(lines[i])
incident_type == strip(lines[i + 1])
location == strip(lines[i + 2])
municipality == strip(lines[i + 3])
ts_str == strip(lines[i + 4])
station == strip(lines[i + 5])

\* i += 6
BlockLen == 6

ScanKeep == UNCHANGED <<connected, TARGET_FILTERS, earlier, lines, anchors, incident_links, now,
                        all_incidents, my_incidents, unitVars, cycleVars>>

\* a line that is not a block: move on by one
SkipLine ==
    /\ i' = i + 1
    /\ examined' = examined \cup {i}
    /\ UNCHANGED <<incidents, log, pc>>
    /\ ScanKeep

\* lines 116-119
ScanFire ==
    /\ InLoop
    /\ line = FireHeader
    /\ current_category' = "FIRE"
    /\ SkipLine

\* lines 120-123
ScanEMS ==
    /\ InLoop
    /\ line = EmsHeader
    /\ current_category' = "EMS"
    /\ SkipLine

\* lines 124-127
ScanTraffic ==
    /\ InLoop
    /\ line = TrafficHeader
    /\ current_category' = "TRAFFIC"
    /\ SkipLine

\* lines 129-131
ScanTableHeader ==
    /\ InLoop
    /\ ~IsSectionHeader(line)
    /\ IsTableHeader(line)
    /\ UNCHANGED current_category
    /\ SkipLine

\* lines 134-136
ScanNoise ==
    /\ InLoop
    /\ ~IsSectionHeader(line)
    /\ ~IsTableHeader(line)
    /\ ~id_re_match(line)
    /\ UNCHANGED current_category
    /\ SkipLine

\* return incidents, back in main_loop at line 272
Return ==
    /\ all_incidents' = incidents
    /\ pc' = "filter"
    /\ UNCHANGED <<connected, TARGET_FILTERS, earlier, lines, anchors, incident_links, now, i,
                   current_category, incidents, log, my_incidents, unitVars, cycleVars>>

\* ScanBreak that also breaks when exactly six lines are left
ScanBreak_off_by_one ==
    /\ AtId
    /\ i + 5 >= Len(lines)
    /\ examined' = examined \cup {i}
    /\ Return

\* lines 139-140: fewer than six lines are left, break
ScanBreak ==
    /\ AtId
    /\ i + 5 > Len(lines)
    /\ examined' = examined \cup {i}
    /\ Return

\* line 112: the cursor is past the last line
ScanReturn ==
    /\ pc = "scan"
    /\ i > Len(lines)
    /\ UNCHANGED examined
    /\ Return

\* DropBlock with the cursor moved by one line only
DropBlock_rescan(why) ==
    /\ i' = i + 1
    /\ examined' = examined \cup {i}
    /\ log' = Append(log, [start |-> i, outcome |-> why, cat |-> current_category,
                           fetch |-> "none", body |-> <<>>])
    /\ UNCHANGED <<incidents, current_category, pc>>
    /\ ScanKeep

\* a block that is consumed and gives no incident
DropBlock(why) ==
    /\ i' = i + BlockLen
    /\ examined' = examined \cup {i}
    /\ log' = Append(log, [start |-> i, outcome |-> why, cat |-> current_category,
                           fetch |-> "none", body |-> <<>>])
    /\ UNCHANGED <<incidents, current_category, pc>>
    /\ ScanKeep

\* lines 152-153
ScanBadShape ==
    /\ AtBlock
    /\ ~ts_re_match(ts_str)
    /\ DropBlock("bad_shape")

\* lines 155-160
ScanBadDate ==
    /\ AtBlock
    /\ ts_re_match(ts_str)
    /\ ~strptime_ok(ts_str)
    /\ DropBlock("bad_date")

\* lines 162-163
ScanTooOld ==
    /\ AtBlock
    /\ ts_re_match(ts_str)
    /\ strptime_ok(ts_str)
    /\ is_too_old(strptime(ts_str), now)
    /\ DropBlock("too_old")

\* lines 162-172 have let the block through
AtEmit ==
    /\ AtBlock
    /\ ts_re_match(ts_str)
    /\ strptime_ok(ts_str)
    /\ ~is_too_old(strptime(ts_str), now)

comments_url == links_get(incident_links, incident_id)

\* lines 175-189, with the result of get_units_on_scene
EmitBlock(fetch, body, units_on_scene) ==
    /\ incidents' = Append(incidents,
            make_incident(strptime(ts_str), incident_id, incident_type, location, municipality,
                          ts_str, station, current_category, comments_url, units_on_scene))
    /\ i' = i + BlockLen
    /\ examined' = examined \cup {i}
    /\ log' = Append(log, [start |-> i, outcome |-> "emitted", cat |-> current_category,
                           fetch |-> fetch, body |-> body])
    /\ UNCHANGED <<current_category, pc>>
    /\ ScanKeep

\* ScanEmitNoUrl that fetches the empty url, and the fetch fails
ScanEmitNoUrl_fetches ==
    /\ AtEmit
    /\ comments_url = <<>>
    /\ EmitBlock("failed", <<>>, <<>>)

\* get_units_on_scene returns at line 196 without a fetch
ScanEmitNoUrl ==
    /\ AtEmit
    /\ comments_url = <<>>
    /\ EmitBlock("none", <<>>, <<>>)

\* ScanEmitFetchFails with the incident left out when its comments fetch fails
ScanEmitFetchFails_drops ==
    /\ AtEmit
    /\ comments_url # <<>>
    /\ i' = i + BlockLen
    /\ examined' = examined \cup {i}
    /\ log' = Append(log, [start |-> i, outcome |-> "dropped", cat |-> current_category,
                           fetch |-> "failed", body |-> <<>>])
    /\ UNCHANGED <<incidents, current_category, pc>>
    /\ ScanKeep

\* get_units_on_scene: the fetch of the comments page fails, lines 205-207
ScanEmitFetchFails ==
    /\ AtEmit
    /\ comments_url # <<>>
    /\ EmitBlock("failed", <<>>, <<>>)

\* get_units_on_scene: the fetch succeeds, lines 209-241
ScanEmitFetchOk ==
    /\ AtEmit
    /\ comments_url # <<>>
    /\ \E body \in CommentPages : EmitBlock("ok", body, units_from_lines(body))

(***************************************************************************)
(* main_loop, after get_incidents has returned                             *)
(***************************************************************************)
\* line 273
FilterCall ==
    /\ pc = "filter"
    /\ my_incidents' = filter_incidents(all_incidents, TARGET_FILTERS)
    /\ pc' = "publish"
    /\ UNCHANGED <<connected, TARGET_FILTERS, earlier, scanVars, all_incidents, unitVars, cycleVars>>

\* PublishOk that leaves out a payload with as many incidents as the cycle
\* before published
PublishOk_unless_unchanged ==
    /\ pc = "publish"
    /\ published' = (IF Len(my_incidents) = earlier /\ earlier > 0
                     THEN published
                     ELSE Append(published, make_payload(all_incidents, my_incidents)))
    /\ pub' = "ok"
    /\ pc' = "disconnect"
    /\ UNCHANGED <<connected, TARGET_FILTERS, earlier, scanVars, all_incidents, my_incidents, unitVars,
                   conn, primary, slept>>

\* lines 275-285: client.publish returns
PublishOk ==
    /\ pc = "publish"
    /\ published' = Append(published, make_payload(all_incidents, my_incidents))
    /\ pub' = "ok"
    /\ pc' = "disconnect"
    /\ UNCHANGED <<connected, TARGET_FILTERS, earlier, scanVars, all_incidents, my_incidents, unitVars,
                   conn, primary, slept>>

\* client.publish raises (ValueError for a topic or payload it rejects)
PublishRaises ==
    /\ pc = "publish"
    /\ pub' = "failed"
    /\ pc' = LoopExcept
    /\ UNCHANGED <<connected, TARGET_FILTERS, earlier, scanVars, all_incidents, my_incidents, unitVars,
                   conn, primary, published, slept>>

\* line 287
Disconnect ==
    /\ pc = "disconnect"
    /\ connected' = FALSE
    /\ pc' = "sleep"
    /\ UNCHANGED <<TARGET_FILTERS, earlier, scanVars, all_incidents, my_incidents, unitVars, cycleVars>>

\* line 292
Sleep ==
    /\ pc = "sleep"
    /\ slept' = slept + POLL_INTERVAL
    /\ pc' = "connect"
    /\ UNCHANGED <<connected, TARGET_FILTERS, earlier, scanVars, all_incidents, my_incidents, unitVars,
                   conn, primary, pub, published>>

ScanNext ==
    \/ ScanFire \/ ScanEMS \/ ScanTraffic \/ ScanTableHeader \/ ScanNoise
    \/ ScanBreak \/ ScanReturn
    \/ ScanBadShape \/ ScanBadDate \/ ScanTooOld
    \/ ScanEmitNoUrl \/ ScanEmitFetchFails \/ ScanEmitFetchOk

Next ==
    \/ ConnectOk \/ ConnectOSError \/ ConnectRaises \/ SleepRetry
    \/ FetchPrimaryFails \/ FetchPrimaryOk
    \/ ScanNext
    \/ FilterCall \/ PublishOk \/ PublishRaises \/ Disconnect \/ Sleep

Spec == Init /\ [][Next]_vars

\* the interpreter runs one thread and every blocking call has a timeout or
\* returns, so a step that can be taken is taken
FairSpec == Spec /\ WF_vars(Next)

(***************************************************************************)
(* get_incidents on its own: a page has been fetched and the scan begins.  *)
(***************************************************************************)
ScanInit ==
    /\ pc = "scan"
    /\ connected = TRUE
    /\ TARGET_FILTERS = {}
    /\ lines \in PagesOf(MaxSegs)
    /\ anchors \in AnchorLists
    /\ incident_links = build_links(anchors, EmptyLinks)
    /\ now \in NowSet
    /\ i = 1 /\ current_category = "None" /\ incidents = <<>>
    /\ examined = {} /\ log = <<>>
    /\ all_incidents = <<>> /\ my_incidents = <<>>
    /\ comment_lines = <<>> /\ units = <<>>
    /\ conn = "ok" /\ primary = "ok" /\ pub = "none"
    /\ published = <<>> /\ slept = 0
    /\ earlier = 0

SpecScan == ScanInit /\ [][ScanNext]_vars

\* get_incidents alone on shorter pages, each step of the loop taken in turn:
\* the one thread that runs it is never held up for ever (the fetches have a
\* timeout)
MaxTailSegs == 2

TailInit ==
    /\ pc = "scan"
    /\ connected = TRUE
    /\ TARGET_FILTERS = {}
    /\ lines \in PagesOf(MaxTailSegs)
    /\ anchors \in AnchorLists
    /\ incident_links = build_links(anchors, EmptyLinks)
    /\ now \in NowSet
    /\ i = 1 /\ current_category = "None" /\ incidents = <<>>
    /\ examined = {} /\ log = <<>>
    /\ all_incidents = <<>> /\ my_incidents = <<>>
    /\ comment_lines = <<>> /\ units = <<>>
    /\ conn = "ok" /\ primary = "ok" /\ pub = "none"
    /\ published = <<>> /\ slept = 0
    /\ earlier = 0

FairSpecScan == TailInit /\ [][ScanNext]_vars /\ WF_vars(ScanNext)

(***************************************************************************)
(* get_units_on_scene on its own: the lines of a fetched comments page.    *)
(***************************************************************************)
UnitsInit ==
    /\ pc = "units"
    /\ connected = TRUE
    /\ TARGET_FILTERS = {}
    /\ ScanIdle
    /\ all_incidents = <<>> /\ my_incidents = <<>>
    /\ comment_lines \in SeqsUpTo(CommentLinePool, MaxCommentLines)
    /\ units = <<>>
    /\ conn = "ok" /\ primary = "ok" /\ pub = "none"
    /\ published = <<>> /\ slept = 0
    /\ earlier = 0

\* lines 217-241
UnitsCall ==
    /\ pc = "units"
    /\ units' = units_from_lines(comment_lines)
    /\ pc' = "units_done"
    /\ UNCHANGED <<connected, TARGET_FILTERS, earlier, scanVars, all_incidents, my_incidents,
                   comment_lines, cycleVars>>

SpecUnits == UnitsInit /\ [][UnitsCall]_vars

(***************************************************************************)
(* filter_incidents on its own.                                            *)
(***************************************************************************)
FilterInit ==
    /\ pc = "filter"
    /\ connected = TRUE
    /\ TARGET_FILTERS \in FilterSets
    /\ ScanIdle
    /\ all_incidents \in SeqsUpTo(IncidentPool, MaxIncidents)
    /\ my_incidents = <<>>
    /\ comment_lines = <<>> /\ units = <<>>
    /\ conn = "ok" /\ primary = "ok" /\ pub = "none"
    /\ published = <<>> /\ slept = 0
    /\ earlier = 0

SpecFilter == FilterInit /\ [][FilterCall]_vars

(***************************************************************************)
(* Properties.                                                             *)
(***************************************************************************)
Last(s) == s[Len(s)]

IsEmitted(r) == r.outcome = "emitted"

\* the consumed blocks that gave an incident, in order: one per incident
Emitted == SelectSeq(log, IsEmitted)

\* the cursor is at an ID-shaped line that has five lines after it
CursorAtBlock ==
    /\ pc = "scan"
    /\ i <= Len(lines)
    /\ id_re_match(lines[i])
    /\ i + 5 <= Len(lines)

\* a string that is a valid MM-DD-YYYY HH:MM:SS date and time
ValidDateTime(s) == ts_re_match(s) /\ strptime_ok(s)

\* this step emits exactly one incident, whose six fields are f[1..6]
EmitsOne(f) ==
    /\ Len(incidents') = Len(incidents) + 1
    /\ SubSeq(incidents', 1, Len(incidents)) = incidents
    /\ Last(incidents').id = f[1]
    /\ Last(incidents').type = f[2]
    /\ Last(incidents').location = f[3]
    /\ Last(incidents').municipality = f[4]
    /\ Last(incidents').raw_timestamp = f[5]
    /\ Last(incidents').station = f[6]

\* C1 as stated: at an ID-shaped line followed by at least five lines, when
\* the 5th line of the block is a valid date and time, the step emits exactly
\* one incident whose fields are the six lines of the block, and the cursor
\* advances by 6.
C1_AsStated ==
    [][(CursorAtBlock /\ ValidDateTime(lines[i + 4]))
        => (EmitsOne(SubSeq(lines, i, i + 5)) /\ i' = i + 6)]_vars

\* C1, amended: at an ID-shaped line followed by at least five lines, when the
\* 5th line of the block, trimmed, is a valid date and time not earlier than
\* now - 8h, the step emits exactly one incident whose id, type, location,
\* municipality, raw_timestamp and station are the six lines of the block,
\* trimmed, in order, and the cursor advances by exactly 6.
C1_WellFormedBlock ==
    [][(/\ CursorAtBlock
        /\ ValidDateTime(strip(lines[i + 4]))
        /\ strptime(strip(lines[i + 4])) >= now - Horizon)
        => (/\ EmitsOne([k \in 1..6 |-> strip(lines[i + k - 1])])
            /\ i' = i + 6)]_vars

\* a block with a padded field has been emitted
C1_Witness ==
    \E k \in 1..Len(log) :
        /\ log[k].outcome = "emitted"
        /\ lines[log[k].start + 3] # strip(lines[log[k].start + 3])
        /\ i >= log[k].start + 6
        /\ Len(incidents) >= 1

\* no line inside a consumed block whose timestamp line fails has been read
\* at the top of the loop
InteriorNotExamined ==
    \A k \in 1..Len(log) :
        ~ValidDateTime(strip(lines[log[k].start + 4]))
            => \A q \in (log[k].start + 1)..(log[k].start + 5) : q \notin examined

\* C2 as stated: at an ID-shaped line followed by five lines, when the 5th line
\* of the block is not a valid date and time, no incident is emitted, the
\* cursor advances by 6 and no interior line is taken as a start.
C2_AsStated ==
    [][(CursorAtBlock /\ ~ValidDateTime(lines[i + 4]))
        => (incidents' = incidents /\ i' = i + 6)]_vars

\* C2, amended: at an ID-shaped line followed by at least five lines, when the
\* 5th line of the block, trimmed, does not match the date-time shape or names
\* no calendar date and time, no incident is emitted for the block, the cursor
\* advances by exactly 6, and none of the five interior lines is ever examined
\* as the start of a block.
C2_MalformedBlock ==
    /\ [][(CursorAtBlock /\ ~ValidDateTime(strip(lines[i + 4])))
            => (incidents' = incidents /\ i' = i + 6)]_vars
    /\ []InteriorNotExamined

\* a block with a bad timestamp line and an ID-shaped interior line has been
\* passed, and the scan is over
C2_Witness ==
    /\ i > Len(lines)
    /\ \E k \in 1..Len(log) :
        /\ ~ts_re_match(strip(lines[log[k].start + 4]))
        /\ id_re_match(lines[log[k].start + 2])
        /\ IsSectionHeader(lines[log[k].start + 1])

CategoryOfHeader(l) ==
    IF l = FireHeader THEN "FIRE" ELSE IF l = EmsHeader THEN "EMS" ELSE "TRAFFIC"

\* the category named by the last section-header line among lines[1..p]
RECURSIVE HeaderUpTo(_)
HeaderUpTo(p) ==
    IF p = 0 THEN "UNKNOWN"
    ELSE IF IsSectionHeader(lines[p]) THEN CategoryOfHeader(lines[p])
    ELSE HeaderUpTo(p - 1)

\* the same, counting only the lines the scan examined at its cursor
RECURSIVE ExaminedHeaderUpTo(_)
ExaminedHeaderUpTo(p) ==
    IF p = 0 THEN "UNKNOWN"
    ELSE IF p \in examined /\ IsSectionHeader(lines[p]) THEN CategoryOfHeader(lines[p])
    ELSE ExaminedHeaderUpTo(p - 1)

\* C3 as stated: the category of every emitted incident is the one named by
\* the most recent section-header line before its id line, UNKNOWN when there
\* is none.
C3_AsStated ==
    /\ Len(Emitted) = Len(incidents)
    /\ \A k \in 1..Len(incidents) :
        incidents[k].category = HeaderUpTo(Emitted[k].start - 1)

\* C3, amended: the category of every emitted incident is the one named by the
\* most recent section-header line that the scan examined at its cursor (a
\* header line lying inside a consumed 6-line block is not examined) before
\* the incident's id line, and is UNKNOWN, never null, when there is none.
C3_Category ==
    /\ Len(Emitted) = Len(incidents)
    /\ \A k \in 1..Len(incidents) :
        /\ incidents[k].category = ExaminedHeaderUpTo(Emitted[k].start - 1)
        /\ incidents[k].category \in {"FIRE", "EMS", "TRAFFIC", "UNKNOWN"}

\* an incident with no header before it and one after an EMS header
C3_Witness ==
    \E a, b \in 1..Len(incidents) :
        /\ incidents[a].category = "UNKNOWN"
        /\ incidents[b].category = "EMS"
        /\ lines[Emitted[b].start - 1] = EmsHeader

\* C4: an incident whose timestamp parses is retained iff
\* timestamp >= now - 8h, in whole seconds of the same wall clock; the
\* boundary now - 8h is retained and now - 8h - 1s is excluded.
C4_Recency ==
    [][(CursorAtBlock /\ ValidDateTime(strip(lines[i + 4])))
        => IF strptime(strip(lines[i + 4])) >= now - Horizon
           THEN /\ Len(incidents') = Len(incidents) + 1
                /\ Last(incidents').timestamp = strptime(strip(lines[i + 4]))
           ELSE incidents' = incidents]_vars

\* one page has given an incident dated now - 8h, which was retained, and a
\* block dated now - 8h - 1s, which was dropped
C4_Witness ==
    \E a, b \in 1..Len(log) :
        /\ log[a].outcome = "emitted"
        /\ strptime(strip(lines[log[a].start + 4])) = now - Horizon
        /\ \E k \in 1..Len(incidents) : incidents[k].timestamp = now - Horizon
        /\ log[b].outcome = "too_old"
        /\ strptime(strip(lines[log[b].start + 4])) = now - Horizon - 1

\* the payload of a cycle that has no incident
EmptyPayload == [total_incidents |-> 0, filtered_incidents |-> 0, incidents |-> <<>>]

\* C5 as stated: a cycle whose primary fetch failed publishes nothing.
C5_AsStated == primary = "failed" => published = <<>>

\* C5, amended: in a cycle whose primary fetch fails no comments page is
\* fetched and no incident is found, and the cycle still publishes: unless the
\* publish call itself raises, exactly one payload is published, with
\* total_incidents = 0, filtered_incidents = 0 and no incidents; the next cycle
\* starts after one sleep of the poll interval.
C5_PrimaryFetchFailure ==
    primary = "failed" =>
        /\ log = <<>> /\ incidents = <<>> /\ all_incidents = <<>>
        /\ published \in {<<>>, <<EmptyPayload>>}
        /\ (pc \in {"disconnect", "sleep", "connect"} /\ pub # "failed")
                => published = <<EmptyPayload>>
        /\ pc \in {"filter", "publish", "disconnect", "sleep", "connect"}
        /\ pc = "connect" => slept = POLL_INTERVAL

\* a cycle whose primary fetch failed has published the empty payload and slept
C5_Witness ==
    /\ primary = "failed"
    /\ published = <<EmptyPayload>>
    /\ pc = "connect"
    /\ slept = POLL_INTERVAL

\* the fields of incident k other than units_on_scene are those of the lines
\* of its block, and its units are those of its own comments page
OwnFields(k) ==
    LET r == Emitted[k]
        f == [j \in 1..6 |-> strip(lines[r.start + j - 1])]
    IN  /\ incidents[k].id = f[1]
        /\ incidents[k].type = f[2]
        /\ incidents[k].location = f[3]
        /\ incidents[k].municipality = f[4]
        /\ incidents[k].raw_timestamp = f[5]
        /\ incidents[k].station = f[6]
        /\ incidents[k].timestamp = strptime(f[5])
        /\ incidents[k].category = ExaminedHeaderUpTo(r.start - 1)
        /\ incidents[k].comments_url = links_get(incident_links, f[1])
        /\ incidents[k].units_on_scene =
              (IF r.fetch = "ok" THEN units_from_lines(r.body) ELSE <<>>)

\* C6: when the fetch of an incident's comments page fails, the incident is
\* still emitted, with units_on_scene empty, and the scan goes on with the
\* lines after the block; every incident of the cycle has the fields of its
\* own block and the units of its own comments page, whatever became of the
\* other fetches.
C6_CommentsFetchFailure ==
    /\ [][(Len(log') = Len(log) + 1 /\ Last(log').fetch = "failed")
            => (/\ Len(incidents') = Len(incidents) + 1
                /\ Last(incidents').units_on_scene = <<>>
                /\ Last(incidents').id = strip(lines[i])
                /\ Last(incidents').comments_url # <<>>
                /\ pc' = "scan"
                /\ i' = i + 6)]_vars
    /\ [](Len(Emitted) = Len(incidents) /\ \A k \in 1..Len(incidents) : OwnFields(k))

\* an incident whose comments fetch failed is followed by one whose fetch
\* gave units
C6_Witness ==
    \E a, b \in 1..Len(incidents) :
        /\ a < b
        /\ Emitted[a].fetch = "failed"
        /\ incidents[a].units_on_scene = <<>>
        /\ Emitted[b].fetch = "ok"
        /\ incidents[b].units_on_scene # <<>>

\* C7: in a cycle whose connect fails no page is fetched and nothing is
\* published, and the loop sleeps the poll interval once and then starts the
\* next cycle.
C7_ConnectFailure ==
    conn = "failed" =>
        /\ primary = "none" /\ lines = <<>> /\ log = <<>>
        /\ pub = "none" /\ published = <<>>
        /\ pc \in {"sleep_retry", "sleep", "connect"}
        /\ pc = "connect" => slept = POLL_INTERVAL
        /\ pc # "connect" => slept = 0

\* a cycle whose connect failed has slept and the next cycle is about to start
C7_Witness ==
    /\ conn = "failed"
    /\ pc = "connect"
    /\ slept = POLL_INTERVAL

Sleeping == pc \in {"sleep", "sleep_retry"}

\* C8: the process never terminates; every cycle that starts reaches a sleep,
\* and every sleep is of the poll interval and is followed by the start of
\* another cycle.
C8_PollLoopLiveness ==
    /\ [](pc # "terminated")
    /\ (pc = "connect") ~> Sleeping
    /\ Sleeping ~> (pc = "connect" /\ slept = POLL_INTERVAL)

\* a cycle in which publish raised has been followed by a sleep and the start
\* of the next cycle
C8_Witness ==
    /\ pc = "connect"
    /\ pub = "failed"
    /\ slept = POLL_INTERVAL

\* a line of the comments page that mentions scene and has a ">"
Qualifies(l) == Contains(lower(l), SceneWord) /\ \E k \in 1..Len(l) : l[k] = ">"

FirstGt(l) == CHOOSE k \in 1..Len(l) : l[k] = ">" /\ \A j \in 1..(k - 1) : l[j] # ">"

\* positions before the first ">" that hold no whitespace
InkBefore(l) == {k \in 1..(FirstGt(l) - 1) : l[k] \notin Whitespace}

HasToken(l) == Qualifies(l) /\ InkBefore(l) # {}

\* the last whitespace-separated token before the first ">"
TokenOf(l) ==
    LET e == CHOOSE k \in InkBefore(l) : \A j \in InkBefore(l) : j <= k
        s == CHOOSE k \in 1..e :
                /\ \A j \in k..e : l[j] \notin Whitespace
                /\ (k = 1 \/ l[k - 1] \in Whitespace)
    IN SubSeq(l, s, e)

\* the first line that gives the unit u
FirstLineOf(u) ==
    CHOOSE k \in 1..Len(comment_lines) :
        /\ HasToken(comment_lines[k]) /\ TokenOf(comment_lines[k]) = u
        /\ \A j \in 1..(k - 1) : ~(HasToken(comment_lines[j]) /\ TokenOf(comment_lines[j]) = u)

\* C9: the result is the tokens of the qualifying lines, each once, in the
\* order of their first lines; the three lines of the example give ENG45, TWR1.
C9_UnitExtraction ==
    pc = "units_done" =>
        /\ {units[k] : k \in 1..Len(units)} =
              {TokenOf(comment_lines[k]) : k \in {j \in 1..Len(comment_lines) : HasToken(comment_lines[j])}}
        /\ \A a, b \in 1..Len(units) : a # b => units[a] # units[b]
        /\ \A a, b \in 1..Len(units) : a < b => FirstLineOf(units[a]) < FirstLineOf(units[b])
        /\ comment_lines = <<CLine1, CLine1, CLine2>> => units = <<UnitENG45, UnitTWR1>>

\* the lines of the example have been given and the result is ENG45, TWR1
C9_Witness ==
    /\ pc = "units_done"
    /\ comment_lines = <<CLine1, CLine1, CLine2>>
    /\ units = <<UnitENG45, UnitTWR1>>

\* the positions of the incidents whose municipality contains a filter
Kept == {k \in 1..Len(all_incidents) :
            \E key \in TARGET_FILTERS :
                \E o \in 0..(Len(all_incidents[k].municipality) - Len(key)) :
                    \A j \in 1..Len(key) : all_incidents[k].municipality[o + j] = key[j]}

\* the n-th kept position
KeptAt(n) == CHOOSE k \in Kept : Cardinality({m \in Kept : m <= k}) = n

\* C10: with filters configured the result is exactly the incidents whose
\* municipality contains one of them, in order and unchanged; with none
\* configured it is the input.
C10_MunicipalityFilter ==
    pc = "publish" =>
        IF TARGET_FILTERS = {} THEN my_incidents = all_incidents
        ELSE /\ Len(my_incidents) = Cardinality(Kept)
             /\ \A n \in 1..Len(my_incidents) : my_incidents[n] = all_incidents[KeptAt(n)]

\* East Caln is configured; of an incident of East Caln Township and one of
\* West Chester only the first is kept
C10_Witness ==
    /\ pc = "publish"
    /\ TARGET_FILTERS = {FilterEast}
    /\ Len(all_incidents) = 2
    /\ all_incidents[1].municipality = TokMuni1
    /\ all_incidents[2].municipality = strip(TokMuni2)
    /\ my_incidents = <<all_incidents[1]>>

\* C11 as stated: no two incidents of one scan have the same id.
C11_AsStated ==
    \A a, b \in 1..Len(incidents) : a # b => incidents[a].id # incidents[b].id

\* C11, amended: the scanner gives one incident per emitted block and removes
\* no duplicate: two incidents of one cycle have the same id exactly when
\* their blocks begin with the same id token, so the ids are unique when no
\* id token begins two emitted blocks of the page.
C11_IdsFollowBlocks ==
    /\ Len(Emitted) = Len(incidents)
    /\ \A a, b \in 1..Len(incidents) :
        /\ a < b => Emitted[a].start + 6 <= Emitted[b].start
        /\ (incidents[a].id = incidents[b].id)
              <=> (lines[Emitted[a].start] = lines[Emitted[b].start])

\* two blocks with the same id token have given two incidents, and two blocks
\* with different id tokens have given two incidents
C11_Witness ==
    \E a, b, c \in 1..Len(incidents) :
        /\ a # b /\ incidents[a].id = incidents[b].id
        /\ incidents[a].id # incidents[c].id

\* C12: in every published payload total_incidents is the number of incidents
\* get_incidents returned, before the filter; filtered_incidents is the length
\* of the incidents array; and filtered_incidents <= total_incidents.
C12_PayloadCounts ==
    \A n \in 1..Len(published) :
        /\ all_incidents = (IF primary = "ok" THEN incidents ELSE <<>>)
        /\ published[n].total_incidents = Len(all_incidents)
        /\ published[n].filtered_incidents = Len(published[n].incidents)
        /\ published[n].filtered_incidents <= published[n].total_incidents

\* a payload has been published from which the filter has taken an incident
C12_Witness ==
    /\ published # <<>>
    /\ TARGET_FILTERS # {}
    /\ published[1].total_incidents = 1
    /\ published[1].filtered_incidents = 0
    /\ published[1].incidents = <<>>
    /\ Len(incidents) = 1

\* the anchors of the page whose text is the id and whose href holds the
\* marker in some letter case
LinkAnchors(id) ==
    {j \in 1..Len(anchors) :
        /\ anchors[j].text # <<>>
        /\ anchors[j].text = id
        /\ \E o \in 0..(Len(anchors[j].href) - Len(Marker)) :
              \A c \in 1..Len(Marker) : lower_char(anchors[j].href[o + c]) = Marker[c]}

LastLinkAnchor(id) == CHOOSE j \in LinkAnchors(id) : \A m \in LinkAnchors(id) : m <= j

\* C13: the comments_url of every emitted incident is the resolved href of the
\* last anchor of the page whose non-empty text is the incident's id and whose
\* href contains livecadcomments in any letter case, and is empty when the
\* page has no such anchor.
C13_LinkResolution ==
    \A k \in 1..Len(incidents) :
        IF LinkAnchors(incidents[k].id) = {}
        THEN incidents[k].comments_url = <<>>
        ELSE incidents[k].comments_url = urljoin(anchors[LastLinkAnchor(incidents[k].id)].href)

\* a page with two marked anchors for one id and none for another has given an
\* incident with the url of the second anchor and an incident without url
C13_Witness ==
    \E a, b \in 1..Len(incidents) :
        /\ Cardinality(LinkAnchors(incidents[a].id)) = 2
        /\ incidents[a].comments_url = UrlBaseDir \o HrefB
        /\ LinkAnchors(incidents[b].id) = {}
        /\ incidents[b].comments_url = <<>>

\* The incidents a scan of the cycle's page gives from line p on under
\* category cat, as a function of what the cycle read: the page's lines and
\* anchors, the clock, and the response to the comments fetch of the k-th
\* incident onwards.
RECURSIVE PageIncidents(_, _, _)
PageIncidents(p, cat, k) ==
    IF p > Len(lines) THEN <<>>
    ELSE IF IsSectionHeader(lines[p]) THEN PageIncidents(p + 1, CategoryOfHeader(lines[p]), k)
    ELSE IF IsTableHeader(lines[p]) \/ ~id_re_match(lines[p]) THEN PageIncidents(p + 1, cat, k)
    ELSE IF p + 5 > Len(lines) THEN <<>>
    ELSE IF \/ ~ValidDateTime(strip(lines[p + 4]))
            \/ strptime(strip(lines[p + 4])) < now - Horizon
         THEN PageIncidents(p + 6, cat, k)
    ELSE LET f == [j \in 1..6 |-> strip(lines[p + j - 1])]
             url == IF LinkAnchors(f[1]) = {} THEN <<>>
                    ELSE urljoin(anchors[LastLinkAnchor(f[1])].href)
             got == IF k <= Len(Emitted) /\ Emitted[k].fetch = "ok"
                    THEN units_from_lines(Emitted[k].body) ELSE <<>>
         IN  <<make_incident(strptime(f[5]), f[1], f[2], f[3], f[4], f[5], f[6], cat, url, got)>>
             \o PageIncidents(p + 6, cat, k + 1)

\* the incidents the cycle's inputs give: none when the primary fetch failed
CycleIncidents == IF primary = "ok" THEN PageIncidents(1, "UNKNOWN", 1) ELSE <<>>

\* C14: a cycle that publishes publishes one payload, and the payload is the
\* one its own inputs give (the page's lines and anchors, the clock, the
\* comments responses and the configured filters), whatever the cycles before
\* it read or published; two cycles with the same inputs publish the same
\* payload.
C14_CycleIndependence ==
    /\ pub = "ok" =>
          published = <<make_payload(CycleIncidents,
                                     filter_incidents(CycleIncidents, TARGET_FILTERS))>>
    /\ pub # "ok" => published = <<>>

\* the cycle before published an incident, and this cycle, whose page gave
\* none, published the empty payload
C14_Witness ==
    /\ earlier > 0
    /\ primary = "ok"
    /\ incidents = <<>>
    /\ published = <<EmptyPayload>>

\* the cursor is at an ID-shaped line with fewer than five lines after it
CursorAtTail ==
    /\ pc = "scan"
    /\ i <= Len(lines)
    /\ id_re_match(lines[i])
    /\ i + 5 > Len(lines)

\* the scan stops: it returns the incidents it has, and adds none
ScanStops ==
    /\ pc' = "filter"
    /\ all_incidents' = incidents
    /\ incidents' = incidents
    /\ current_category' = current_category

\* C15: the scan of a finite page terminates: it reaches its return, and
\* while it runs the cursor is at most one past the last line and every step
\* that goes on moves the cursor up by 1 or by 6.  At an ID-shaped line with
\* fewer than five lines after it the scan stops, so no later line gives an
\* incident or changes the category; it stops only there or past the last
\* line.  An ID-shaped line with five or more lines after it, the last six
\* lines of the page included, is consumed as a block of six.
C15_ScanTermination ==
    /\ [][/\ (pc = "scan" /\ pc' = "scan") => i' \in {i + 1, i + 6}
          /\ (pc = "scan" /\ pc' # "scan") => (ScanStops /\ (i > Len(lines) \/ CursorAtTail))
          /\ CursorAtTail => ScanStops
          /\ CursorAtBlock => (i' = i + 6 /\ pc' = "scan")]_vars
    /\ [](pc = "scan" => i <= Len(lines) + 1)
    /\ <>(pc = "filter")

\* the scan stopped at an ID-shaped line with fewer than five lines after it,
\* one of them a section header that did not change the category
C15_Witness ==
    /\ pc = "filter"
    /\ i <= Len(lines)
    /\ id_re_match(lines[i])
    /\ i + 5 > Len(lines)
    /\ \E q \in (i + 1)..Len(lines) :
          /\ IsSectionHeader(lines[q])
          /\ CategoryOfHeader(lines[q]) # current_category

\* the last six lines of the page were consumed as a block that gave an
\* incident
C15_LastBlockConsumed ==
    /\ pc = "filter"
    /\ i = Len(lines) + 1
    /\ log # <<>>
    /\ Last(log).start + 5 = Len(lines)
    /\ Last(log).outcome = "emitted"

\* the blocks of the cycle for which a comments page was fetched
Fetched == {n \in 1..Len(log) : log[n].fetch # "none"}

C17_SessionPairing ==
    /\ pc = "connect" => ~connected
    /\ Len(published) <= 1
    /\ published # <<>> => conn = "ok"
    /\ pc = "publish" => (connected /\ published = <<>>)
====
